---- MODULE Spec2Model ----
(***************************************************************************)
(* Model of the incremental search / selection controller of               *)
(* cli-fuzzy-search (src/lib/main.js).                                      *)
(*                                                                         *)
(* The controller is a closure over mutable variables (found, count,       *)
(* terms, line, start, dataset, loadedPages, morePages, loadingNextPage,   *)
(* cachedResults).  Its handlers run to completion on one event thread;    *)
(* the only suspended work is the dataset promise, the search promises     *)
(* and the debounce timer.  Each handler is one action; the functions the  *)
(* handlers call (filterDataset, loadNextPage, updateList, end) are        *)
(* operators from a controller record to a controller record.              *)
(***************************************************************************)
EXTENDS Bags, FiniteSets, Integers, Sequences, TLC

\* ---------------------------------------------------------------- bounds
\* Number of modifying keystrokes the user makes in one session.
MaxKeys == 2
\* The same, for sessions in which both "data" and "search" are supplied.
MaxKeysBoth == 3
\* Largest viewport height (option "size") that is explored.
MaxSize == 2

\* ------------------------------------------------------------ environment
\* What the user can have typed: the chars array delivered by a change event.
Inputs == {<< >>, <<"a">>}

\* (deltaLine, deltaPage) pairs delivered by a line event: one row or one
\* page up or down, and the two pairs of mixed signs.
Deltas == {<<-1, 0>>, <<1, 0>>, <<0, -1>>, <<0, 1>>, <<-1, 1>>, <<1, -1>>}

\* The collection the "data" option resolves to when it is an array: one
\* falsy entry and one entry with an empty label are mixed in.
RawItems ==
  << [truthy |-> TRUE,  label |-> <<"a", "b">>],
     [truthy |-> FALSE, label |-> << >>],
     [truthy |-> TRUE,  label |-> << >>],
     [truthy |-> TRUE,  label |-> <<"b">>],
     [truthy |-> TRUE,  label |-> <<"b", "a">>] >>

\* The search collaborator: per joined query string, the pages it serves.
SearchPages(q) ==
  CASE q = ""   -> << [data |-> << <<"e1">>, <<"e2">> >>, more |-> TRUE],
                      [data |-> << <<"e3">> >>,           more |-> FALSE] >>
    [] q = "a"  -> << [data |-> << <<"a1">> >>,           more |-> TRUE],
                      [data |-> << <<"a2">> >>,           more |-> FALSE] >>
    [] OTHER    -> << [data |-> << <<"ab1">> >>,          more |-> FALSE] >>

RECURSIVE SumLen(_)
SumLen(pages) ==
  IF pages = << >> THEN 0 ELSE Len(Head(pages).data) + SumLen(Tail(pages))

\* search(q, page): {data, total, more}; a page past the end is empty.
search(q, page) ==
  LET pages == SearchPages(q) IN
  IF page \in 1..Len(pages)
    THEN [data |-> pages[page].data, total |-> SumLen(pages),
          more |-> pages[page].more]
    ELSE [data |-> << >>, total |-> SumLen(pages), more |-> FALSE]

\* ---------------------------------------------------------------- state
VARIABLES
  opts,             \* the options of the call: data, search, cache, size
  constructed,      \* the promise executor has run
  stdinPrepared,    \* stdin.setRawMode / resume / on("error") were called
  listeners,        \* the input emitter has its four listeners attached
  outcome,          \* settlement of the returned promise
  found, count, terms, line, start, dataset,
  loadedPages, morePages, loadingNextPage, cachedResults,
  loading,          \* _loading of updateStatus
  inflight,         \* bag of search promises not yet settled
  dataPending,      \* the dataset promise chain has not yet run
  timer,            \* the debounce timer is armed
  requested,        \* history: every (terms object, query, page) searched
  filteredIds,      \* history: terms objects filterDataset has run with
  fuzzyRan,         \* history: the dataset filter has produced found
  failed,           \* history: the (query, page) of every rejected search
  lastEvent         \* history: the handler that ran last

ctlVars == <<found, count, terms, line, start, dataset, loadedPages,
             morePages, loadingNextPage, cachedResults, loading, inflight,
             requested, filteredIds, fuzzyRan>>
vars == <<opts, constructed, stdinPrepared, listeners, outcome, ctlVars,
          dataPending, timer, failed, lastEvent>>

Pending == [kind |-> "pending", value |-> << >>]
Undefined == << >>
Resolved(v) == [kind |-> "resolved", value |-> v]
Rejected(e) == [kind |-> "rejected", value |-> <<e>>]

\* ------------------------------------------------------ pure functions
\* terms.join("")
RECURSIVE Join(_)
Join(chars) == IF chars = << >> THEN "" ELSE Head(chars) \o Join(Tail(chars))

\* items.filter((item) => item && item.label)
RECURSIVE checkDatasetItems(_)
checkDatasetItems(items) ==
  IF items = << >> THEN << >>
  ELSE LET h == Head(items) IN
       IF h.truthy /\ h.label # << >>
         THEN <<[label |-> h.label]>> \o checkDatasetItems(Tail(items))
         ELSE checkDatasetItems(Tail(items))

\* The fuzzy matcher (lib/fuzzy.js): a label matches when the query chars
\* occur in it in order.
RECURSIVE IsSubseq(_, _)
IsSubseq(q, l) ==
  IF q = << >> THEN TRUE
  ELSE IF l = << >> THEN FALSE
  ELSE IF Head(q) = Head(l) THEN IsSubseq(Tail(q), Tail(l))
  ELSE IsSubseq(q, Tail(l))

RECURSIVE FuzzyFrom(_, _, _)
FuzzyFrom(items, chars, n) ==
  IF items = << >> THEN << >>
  ELSE IF IsSubseq(chars, Head(items).label)
    THEN <<[label |-> Head(items).label, index |-> n]>>
           \o FuzzyFrom(Tail(items), chars, n + 1)
    ELSE FuzzyFrom(Tail(items), chars, n)

fuzzy(items, chars) == FuzzyFrom(items, chars, 0)

\* const filter = data || fuzzyOnSearch ? fuzzy : (items) => items; it is
\* applied to the dataset only, where data is truthy.
filter(items, chars) == fuzzy(items, chars)

Max(a, b) == IF a > b THEN a ELSE b
Min(a, b) == IF a < b THEN a ELSE b

\* ------------------------------------------------- the controller record
\* The closure variables of lines 71-83 (and _loading of updateStatus, the
\* outstanding search promises and the history) as one record, so that the
\* functions of the closure can be written as record-to-record operators.
Ctl ==
  [found |-> found, count |-> count, terms |-> terms, line |-> line,
   start |-> start, dataset |-> dataset, loadedPages |-> loadedPages,
   morePages |-> morePages, loadingNextPage |-> loadingNextPage,
   cachedResults |-> cachedResults, loading |-> loading,
   inflight |-> inflight, requested |-> requested,
   filteredIds |-> filteredIds, fuzzyRan |-> fuzzyRan]

Commit(s) ==
  /\ found' = s.found
  /\ count' = s.count
  /\ terms' = s.terms
  /\ line' = s.line
  /\ start' = s.start
  /\ dataset' = s.dataset
  /\ loadedPages' = s.loadedPages
  /\ morePages' = s.morePages
  /\ loadingNextPage' = s.loadingNextPage
  /\ cachedResults' = s.cachedResults
  /\ loading' = s.loading
  /\ inflight' = s.inflight
  /\ requested' = s.requested
  /\ filteredIds' = s.filteredIds
  /\ fuzzyRan' = s.fuzzyRan

NoDataset == [loaded |-> FALSE, items |-> << >>]
NoCache == [k \in {} |-> << >>]

\* cachedResults.set(query, entry)
MapSet(m, k, v) == [x \in (DOMAIN m) \cup {k} |-> IF x = k THEN v ELSE m[x]]

\* ------------------------------------------------- functions of the closure
RECURSIVE loadNextPage(_), updateList(_)

\* A loadNextPage without the in-flight check of line 123.
StillLoadingUnchecked(s) == FALSE

\* if (loadingNextPage.has(_terms)) return;
StillLoading(s) == s.terms.id \in s.loadingNextPage

\* loadedPages === 0 && cachedResults.has(query)
CacheHit(s) == s.loadedPages = 0 /\ Join(s.terms.chars) \in DOMAIN s.cachedResults

\* The call of the search collaborator, lines 126-127.
StartFetch(s) ==
  LET call == [tid |-> s.terms.id, query |-> Join(s.terms.chars),
               page |-> s.loadedPages + 1] IN
  [s EXCEPT !.loadingNextPage = @ \cup {s.terms.id},
            !.inflight = @ (+) SetToBag({call}),
            !.requested = @ \cup {call}]

\* A restore that leaves morePages out of the destructuring of line 116.
loadNextPageKeepsMore(s) ==
  IF CacheHit(s)
    THEN LET e == s.cachedResults[Join(s.terms.chars)] IN
         updateList([s EXCEPT !.loadedPages = e[1], !.found = e[2],
                              !.count = e[3]])
    ELSE LET s1 == [s EXCEPT !.loading = TRUE] IN
         IF StillLoading(s1) THEN s1 ELSE StartFetch(s1)

loadNextPage(s) ==
  IF CacheHit(s)
    THEN LET e == s.cachedResults[Join(s.terms.chars)] IN
         updateList([s EXCEPT !.loadedPages = e[1], !.found = e[2],
                              !.count = e[3], !.morePages = e[4]])
    ELSE LET s1 == [s EXCEPT !.loading = TRUE] IN
         IF StillLoading(s1) THEN s1 ELSE StartFetch(s1)

\* If last element is visible, load next page
LastVisible(s) ==
  /\ opts.search # "none"
  /\ s.start + opts.size >= Len(s.found)
  /\ s.morePages

updateList(s) ==
  LET s1 == [s EXCEPT !.loading = FALSE] IN
  IF LastVisible(s1) THEN loadNextPage(s1) ELSE s1

\* A filter pass that filters the dataset with the terms left out.
filterDatasetWithoutTerms(s) ==
  LET s1 == [s EXCEPT !.line = 0, !.start = 0,
                      !.filteredIds = @ \cup {s.terms.id}] IN
  IF opts.data # "none" /\ s1.dataset.loaded
    THEN LET f == filter(s1.dataset.items, << >>) IN
         updateList([s1 EXCEPT !.found = f, !.count = Len(f),
                               !.fuzzyRan = TRUE])
  ELSE IF opts.search # "none"
    THEN loadNextPage([s1 EXCEPT !.loadedPages = 0, !.found = << >>])
  ELSE s1

filterDataset(s) ==
  LET s1 == [s EXCEPT !.line = 0, !.start = 0,
                      !.filteredIds = @ \cup {s.terms.id}] IN
  IF opts.data # "none" /\ s1.dataset.loaded
    THEN LET f == filter(s1.dataset.items, s1.terms.chars) IN
         updateList([s1 EXCEPT !.found = f, !.count = Len(f),
                               !.fuzzyRan = TRUE])
  ELSE IF opts.search # "none"
    THEN loadNextPage([s1 EXCEPT !.loadedPages = 0, !.found = << >>])
  ELSE s1

\* A completion handler without the race check of line 130.
IsStaleIgnored(call, s) == FALSE

\* if (_terms !== terms) return; // Classic race condition
IsStale(call, s) == call.tid # s.terms.id

\* An index assignment that numbers every page from 0.
addedFromZero(data, base) ==
  [i \in 1..Len(data) |-> [label |-> data[i], index |-> i - 1]]

\* data.map((item, i) => Object.assign({}, item, {index: found.length + i}))
added(data, base) ==
  [i \in 1..Len(data) |-> [label |-> data[i], index |-> base + i - 1]]

\* A .then handler that writes the cache without the test of line 140.
onSearchResultAlwaysCached(s, call) ==
  LET r == search(call.query, call.page)
      s1 == [s EXCEPT !.loadingNextPage = @ \ {call.tid}] IN
  IF IsStale(call, s1) THEN s1
  ELSE LET f == s1.found \o added(r.data, Len(s1.found)) IN
       updateList([s1 EXCEPT !.found = f, !.count = r.total,
                             !.loadedPages = call.page, !.morePages = r.more,
                             !.cachedResults =
                               MapSet(@, call.query,
                                      <<call.page, f, r.total, r.more>>)])

\* The .then handler of the search promise, lines 128-144.
onSearchResult(s, call) ==
  LET r == search(call.query, call.page)
      s1 == [s EXCEPT !.loadingNextPage = @ \ {call.tid}] IN
  IF IsStale(call, s1) THEN s1
  ELSE LET f == s1.found \o added(r.data, Len(s1.found))
           s2 == [s1 EXCEPT !.found = f, !.count = r.total,
                            !.loadedPages = call.page, !.morePages = r.more]
           s3 == IF opts.cache
                   THEN [s2 EXCEPT !.cachedResults =
                           MapSet(@, call.query,
                                  <<call.page, f, r.total, r.more>>)]
                   ELSE s2
       IN updateList(s3)

\* line = Math.max(0, Math.min(found.length - 1, line + dline + dpage * size))
newLine(s, dline, dpage) ==
  Max(0, Min(Len(s.found) - 1, s.line + dline + dpage * opts.size))

newStart(s, l, dline, dpage) ==
  IF (dline < 0 \/ dpage < 0) /\ l < s.start THEN l
  ELSE IF (dline > 0 \/ dpage > 0) /\ l >= s.start + opts.size
    THEN l - opts.size + 1
  ELSE s.start

onChangeLine(s, dline, dpage) ==
  LET l == newLine(s, dline, dpage) IN
  updateList([s EXCEPT !.line = l, !.start = newStart(s, l, dline, dpage)])

\* const selected = found[line]
selected(s) ==
  IF s.line + 1 \in 1..Len(s.found) THEN s.found[s.line + 1] ELSE Undefined

\* An end that leaves the listeners of the input emitter attached.
detachNothing(l) == l

\* input.removeAllListeners()
detach(l) == FALSE

\* reject(err) / resolve(result): a settled promise stays as it is.
settle(o, err, result) ==
  IF o # Pending THEN o
  ELSE IF err # "" THEN Rejected(err) ELSE Resolved(result)

end(err, result) ==
  /\ listeners' = detach(listeners)
  /\ outcome' = settle(outcome, err, result)

\* Validation without the typeof check of line 25.
ConfigErrorUntyped(o) == o.data = "none" /\ o.search = "none"

\* The checks of lines 22-33.
ConfigError(o) ==
  \/ o.data = "none" /\ o.search = "none"
  \/ o.search = "notfn"

\* ---------------------------------------------------------------- Init
\* The call of the exported function: any combination of the options.  The
\* closure variables hold the values of lines 71-83.
Init ==
  /\ opts \in [data : {"none", "array", "notarray"},
               search : {"none", "fn", "notfn"},
               cache : BOOLEAN,
               size : 1..MaxSize]
  /\ constructed = FALSE
  /\ stdinPrepared = FALSE
  /\ listeners = FALSE
  /\ outcome = Pending
  /\ found = << >>
  /\ count = 0
  /\ terms = [id |-> 0, chars |-> << >>]
  /\ line = 0
  /\ start = 0
  /\ dataset = NoDataset
  /\ loadedPages = 0
  /\ morePages = FALSE
  /\ loadingNextPage = {}
  /\ cachedResults = NoCache
  /\ loading = FALSE
  /\ inflight = EmptyBag
  /\ dataPending = FALSE
  /\ timer = FALSE
  /\ requested = {}
  /\ filteredIds = {}
  /\ fuzzyRan = FALSE
  /\ failed = {}
  /\ lastEvent = "call"

\* ------------------------------------------------------------- actions
\* The promise executor, lines 21-95 and 239-243.  The microtask of line 94
\* runs before any input event can be delivered and is part of this step.
Construct ==
  /\ ~constructed
  /\ constructed' = TRUE
  /\ lastEvent' = "construct"
  /\ UNCHANGED <<timer, failed>>
  /\ IF ConfigError(opts)
       THEN /\ outcome' = settle(outcome, "config", Undefined)
            /\ UNCHANGED <<stdinPrepared, listeners, dataPending, ctlVars>>
       ELSE /\ stdinPrepared' = TRUE
            /\ listeners' = TRUE
            /\ outcome' = outcome
            /\ IF opts.data # "none"
                 THEN /\ dataPending' = TRUE
                      /\ Commit([Ctl EXCEPT !.loading = TRUE])
                 ELSE /\ dataPending' = dataPending
                      /\ Commit(loadNextPage(Ctl))
  /\ opts' = opts

\* The promise chain of lines 88-92 runs: checkDataset, dataset = items,
\* filterDataset; a rejection goes to end.
DataLoaded ==
  /\ dataPending
  /\ dataPending' = FALSE
  /\ lastEvent' = "dataLoaded"
  /\ IF opts.data = "array"
       THEN /\ Commit(filterDataset(
                 [Ctl EXCEPT !.dataset = [loaded |-> TRUE,
                                         items |-> checkDatasetItems(RawItems)]]))
            /\ UNCHANGED <<listeners, outcome>>
       ELSE /\ end("Invalid dataset: not an array", Undefined)
            /\ UNCHANGED ctlVars
  /\ UNCHANGED <<opts, constructed, stdinPrepared, timer, failed>>

\* A "change" event, onChangeInput (lines 184-200).  A modifying event
\* delivers a new chars array: a new terms object.  An event that modifies
\* nothing (a cursor movement) only redraws the input line.
InputChange(chars, modified, maxKeys) ==
  /\ constructed
  /\ IF ~listeners THEN UNCHANGED vars
     ELSE /\ IF modified
               THEN /\ terms.id < maxKeys
                    /\ chars # terms.chars
                    /\ terms' = [id |-> terms.id + 1, chars |-> chars]
                    /\ timer' = TRUE
                    /\ lastEvent' = "change"
               ELSE /\ chars = terms.chars
                    /\ UNCHANGED <<terms, timer, lastEvent>>
          /\ UNCHANGED <<opts, constructed, stdinPrepared, listeners, outcome,
                         found, count, line, start, dataset, loadedPages,
                         morePages, loadingNextPage, cachedResults, loading,
                         inflight, requested, filteredIds, fuzzyRan,
                         dataPending, failed>>

\* The debounce timer elapses: debouncedFilterDataset runs filterDataset.
DebounceFire ==
  /\ timer
  /\ timer' = FALSE
  /\ lastEvent' = "debounce"
  /\ Commit(filterDataset(Ctl))
  /\ UNCHANGED <<opts, constructed, stdinPrepared, listeners, outcome,
                 dataPending, failed>>

\* A "line" event, onChangeLine (lines 203-217).
InputLine(dline, dpage) ==
  /\ constructed
  /\ IF ~listeners THEN UNCHANGED vars
     ELSE /\ lastEvent' = "line"
          /\ Commit(onChangeLine(Ctl, dline, dpage))
          /\ UNCHANGED <<opts, constructed, stdinPrepared, listeners, outcome,
                         dataPending, timer, failed>>

\* A "select" event, onSelect (lines 220-223).
InputSelect ==
  /\ constructed
  /\ IF ~listeners THEN UNCHANGED vars
     ELSE /\ lastEvent' = "select"
          /\ end("", selected(Ctl))
          /\ UNCHANGED <<opts, constructed, stdinPrepared, ctlVars,
                         dataPending, timer, failed>>

\* An "end" event, onEnd (line 226).
InputEnd ==
  /\ constructed
  /\ IF ~listeners THEN UNCHANGED vars
     ELSE /\ lastEvent' = "end"
          /\ end("", Undefined)
          /\ UNCHANGED <<opts, constructed, stdinPrepared, ctlVars,
                         dataPending, timer, failed>>

\* stdin.on("error", (e) => end(e)), line 68.
StdinError ==
  /\ stdinPrepared
  /\ IF ~listeners /\ outcome # Pending THEN UNCHANGED vars
     ELSE /\ lastEvent' = "stdinError"
          /\ end("stdin", Undefined)
          /\ UNCHANGED <<opts, constructed, stdinPrepared, ctlVars,
                         dataPending, timer, failed>>

\* A search promise fulfils: the .then handler of lines 128-144.
FetchDone(call) ==
  /\ BagIn(call, inflight)
  /\ LET s == [Ctl EXCEPT !.inflight = @ (-) SetToBag({call})] IN
     /\ lastEvent' = IF IsStale(call, s) THEN "fetchStale" ELSE "fetchDone"
     /\ Commit(onSearchResult(s, call))
  /\ UNCHANGED <<opts, constructed, stdinPrepared, listeners, outcome,
                 dataPending, timer, failed>>

\* A search promise rejects: .catch(end), line 145.
FetchFail(call) ==
  /\ BagIn(call, inflight)
  /\ lastEvent' = "fetchFail"
  /\ inflight' = inflight (-) SetToBag({call})
  /\ failed' = failed \cup {[query |-> call.query, page |-> call.page]}
  /\ end("search", Undefined)
  /\ UNCHANGED <<opts, constructed, stdinPrepared, found, count, terms, line,
                 start, dataset, loadedPages, morePages, loadingNextPage,
                 cachedResults, loading, requested, filteredIds, fuzzyRan,
                 dataPending, timer>>

Next ==
  \/ Construct
  \/ DataLoaded
  \/ \E chars \in Inputs, modified \in BOOLEAN :
       InputChange(chars, modified, MaxKeys)
  \/ DebounceFire
  \/ \E d \in Deltas : InputLine(d[1], d[2])
  \/ InputSelect
  \/ InputEnd
  \/ StdinError
  \/ \E call \in BagToSet(inflight) : FetchDone(call)
  \/ \E call \in BagToSet(inflight) : FetchFail(call)

Spec == Init /\ [][Next]_vars

\* Sessions in which both collaborators are supplied, with one keystroke more.
InitBoth == Init /\ opts.data = "array" /\ opts.search = "fn"

NextBoth ==
  \/ Construct
  \/ DataLoaded
  \/ \E chars \in Inputs, modified \in BOOLEAN :
       InputChange(chars, modified, MaxKeysBoth)
  \/ DebounceFire
  \/ \E d \in Deltas : InputLine(d[1], d[2])
  \/ InputSelect
  \/ InputEnd
  \/ StdinError
  \/ \E call \in BagToSet(inflight) : FetchDone(call)
  \/ \E call \in BagToSet(inflight) : FetchFail(call)

SpecBoth == InitBoth /\ [][NextBoth]_vars

\* ---------------------------------------------------------------- claims
Calls == BagToSet(inflight)

\* C1: race safety.  A search result that arrives when the terms object it
\* was requested for is no longer the current one leaves found, count,
\* loadedPages, morePages and the cache as they are.
C1_StaleResultDiscarded ==
  [][\A call \in Calls :
       (FetchDone(call) /\ call.tid # terms.id)
         => UNCHANGED <<found, count, loadedPages, morePages, cachedResults>>]_vars

\* A result of a superseded query has just arrived while results of an
\* earlier query are displayed.
C1_Witness ==
  /\ lastEvent = "fetchStale"
  /\ opts.search = "fn"
  /\ found # << >>
  /\ terms.id > 0

\* C2: fetch idempotence.  At most one search call is outstanding per terms
\* object.
C2_OneFetchPerTerms ==
  \A c \in Calls :
    /\ CopiesIn(c, inflight) = 1
    /\ \A d \in Calls : d.tid = c.tid => d = c

\* A filter pass has run while a call started earlier for the same terms
\* object (page > 1, so not started by this pass) is still outstanding.
C2_Witness ==
  /\ lastEvent = "debounce"
  /\ loadedPages = 0
  /\ \E c \in Calls : c.tid = terms.id /\ c.page > 1

\* Only "search" was supplied.
SearchMode == opts.search = "fn" /\ opts.data = "none"

\* C3: debounce coalescing.  Every search call was made with terms that a
\* filter pass has run with, with the initial terms, or with the terms that
\* are current: no call is made with terms that a later keystroke of the
\* same burst has replaced before the debounced filter pass ran.
C3_OnlyFinalTermsSearched ==
  SearchMode =>
    \A r \in requested : r.tid \in filteredIds \cup {0, terms.id}

\* A filter pass in search mode that finds the joined query in the cache.
CachedFilterPass ==
  /\ DebounceFire
  /\ SearchMode
  /\ Join(terms.chars) \in DOMAIN cachedResults

\* C4 as stated: a filter pass for a cached query restores the cached state
\* and starts no search call.
C4_RestoreWithoutSearch ==
  [][CachedFilterPass =>
       /\ <<loadedPages', found', count', morePages'>>
            = cachedResults[Join(terms.chars)]
       /\ inflight' = inflight]_vars

\* C4 amended: the cached state is restored, the cache is left as it is, no
\* page that the restored state holds is requested, and the only call that
\* can start is the auto-pagination call for the page after the restored
\* ones, when the restored state has more pages and its last element is
\* visible from start = 0.
C4_RestoreThenAutoPaginate ==
  [][CachedFilterPass =>
       LET q == Join(terms.chars)
           e == cachedResults[q]
           next == [tid |-> terms.id, query |-> q, page |-> e[1] + 1] IN
       /\ <<loadedPages', found', count', morePages'>> = e
       /\ cachedResults' = cachedResults
       /\ line' = 0 /\ start' = 0
       /\ \/ inflight' = inflight
          \/ /\ e[4] /\ opts.size >= Len(e[2])
             /\ inflight' = inflight (+) SetToBag({next})]_vars

\* A filter pass has just restored a query typed for the second time.
C4_Witness ==
  /\ lastEvent = "debounce"
  /\ SearchMode
  /\ terms.id = 2
  /\ Join(terms.chars) \in DOMAIN cachedResults
  /\ <<loadedPages, found, count, morePages>> = cachedResults[Join(terms.chars)]
  /\ found # << >>

\* C5: viewport invariant.  start is not negative, line is inside the
\* window of size rows that begins at start, and line is a position of
\* found (0 when found is empty).
C5_Viewport ==
  constructed =>
    /\ 0 <= start
    /\ start <= line
    /\ line < start + opts.size
    /\ 0 <= line
    /\ found # << >> => line < Len(found)
    /\ found = << >> => line = 0

\* The promise has been settled: by select, by cancel or by an error.
Ended == outcome # Pending

\* C6: no mutation after termination.  A search result or the dataset that
\* arrives after the operation has ended changes none of found, count,
\* loadedPages, morePages, line, start and the cache, and starts no search.
C6_LateResultDropped ==
  [][(Ended /\ (DataLoaded \/ \E call \in Calls : FetchDone(call)))
       => /\ UNCHANGED <<found, count, loadedPages, morePages, line, start,
                         cachedResults>>
          /\ requested' = requested]_vars

\* C7: fetch failure is terminal.  A rejected search call rejects the
\* operation with that error unless it has ended before, and no search call
\* is made later for a (query, page) that has been rejected.
C7_FetchFailureTerminal ==
  [][/\ \A call \in Calls :
          (FetchFail(call) /\ ~Ended)
            => outcome' = Rejected("search") /\ ~listeners'
     /\ \A c \in requested' \ requested :
          [query |-> c.query, page |-> c.page] \notin failed]_vars

\* The options the validation of lines 22-33 refuses.
BadOptions ==
  \/ opts.data = "none" /\ opts.search = "none"
  \/ opts.search = "notfn"

\* C8: configuration validation.  With neither data nor search, or with a
\* search that is not a function, the operation is rejected and stdin is
\* not prepared, no listener is attached, no dataset load and no search call
\* is started.
C8_ConfigRejectedFirst ==
  (constructed /\ BadOptions) =>
    /\ outcome = Rejected("config")
    /\ ~stdinPrepared
    /\ ~listeners
    /\ ~dataPending
    /\ dataset = NoDataset
    /\ inflight = EmptyBag
    /\ requested = {}
    /\ ~loading

\* A call with data and with a search that is not a function was rejected.
C8_Witness ==
  /\ constructed
  /\ opts.data = "array"
  /\ opts.search = "notfn"
  /\ outcome = Rejected("config")

\* found[line] of JavaScript: undefined outside the array.
FoundAtLine ==
  IF line + 1 \in 1..Len(found) THEN found[line + 1] ELSE Undefined

AnyInputEvent ==
  \/ \E chars \in Inputs, modified \in BOOLEAN, k \in {MaxKeys, MaxKeysBoth} :
       InputChange(chars, modified, k)
  \/ \E d \in Deltas : InputLine(d[1], d[2])
  \/ InputSelect
  \/ InputEnd

\* C9: terminal transitions.  A select event that reaches its listener
\* resolves the operation with found[line] (undefined when found is empty),
\* an end event with undefined; both detach the listeners, and an input
\* event after the operation has ended changes neither the controller state
\* nor the outcome.
C9_TerminalTransitions ==
  [][/\ (listeners /\ InputSelect)
          => /\ outcome' = Resolved(FoundAtLine)
             /\ found = << >> => outcome' = Resolved(Undefined)
             /\ ~listeners'
     /\ (listeners /\ InputEnd)
          => outcome' = Resolved(Undefined) /\ ~listeners'
     /\ (Ended /\ AnyInputEvent)
          => UNCHANGED <<ctlVars, outcome, listeners, timer>>]_vars

\* The user has selected the second row of the list.
C9_Witness ==
  /\ lastEvent = "select"
  /\ ~listeners
  /\ line = 1
  /\ Len(found) >= 2
  /\ outcome = Resolved(found[2])

\* C10: mode exclusivity.  In one session the dataset filter and the search
\* collaborator are never both used.
C10_OneModePerSession == ~(fuzzyRan /\ requested # {})

\* A display update has just run: a page was appended, a line was moved, or
\* a filter pass restored the cached pages (loadedPages is 0 after a filter
\* pass that restored nothing).
DisplayUpdated ==
  \/ lastEvent \in {"fetchDone", "line"}
  \/ lastEvent = "debounce" /\ loadedPages > 0

\* C11: auto-pagination.  In search mode, after a display update that
\* leaves the last loaded element visible while more pages exist, a search
\* call for the current terms object is outstanding.
C11_AutoPagination ==
  (SearchMode /\ DisplayUpdated
     /\ start + opts.size >= Len(found) /\ morePages)
    => \E c \in Calls : c.tid = terms.id

\* The same, while the operation has not ended.
C11_AutoPaginationLive == ~Ended => C11_AutoPagination

\* Every item of f carries its own position as index.
Dense(f) == \A i \in 1..Len(f) : f[i].index = i - 1

\* C12: index density in search mode.  Every item of found carries its
\* position as index, and a page append leaves the items loaded before as
\* they are and numbers the new ones from the previous length on.
C12_IndexDense ==
  [][SearchMode =>
       /\ Dense(found')
       /\ \A call \in Calls :
            (FetchDone(call) /\ call.tid = terms.id)
              => /\ Len(found') >= Len(found)
                 /\ SubSeq(found', 1, Len(found)) = found
                 /\ \A i \in (Len(found) + 1)..Len(found') :
                      found'[i].index = i - 1]_vars

\* The second page of a query has just been appended behind the first.
C12_Witness ==
  /\ SearchMode
  /\ lastEvent = "fetchDone"
  /\ loadedPages = 2
  /\ Len(found) = 3
  /\ found[3].index = 2

\* C13: cache disabled.  With cache = false the cache stays empty, and a
\* filter pass in search mode whose terms object is not marked as loading
\* starts the search call for page 1 of the query, whatever was loaded for
\* that query string before.
C13_CacheDisabled ==
  [][~opts.cache =>
       /\ cachedResults' = NoCache
       /\ (SearchMode /\ DebounceFire /\ terms.id \notin loadingNextPage)
            => /\ loadedPages' = 0
               /\ found' = << >>
               /\ inflight' = inflight (+) SetToBag(
                    {[tid |-> terms.id, query |-> Join(terms.chars),
                      page |-> 1]})]_vars

\* Without cache, the empty query is typed again after its pages were
\* requested up to the last one, and page 1 is requested once more.
C13_Witness ==
  /\ SearchMode
  /\ ~opts.cache
  /\ lastEvent = "debounce"
  /\ terms = [id |-> 2, chars |-> << >>]
  /\ [tid |-> 0, query |-> "", page |-> 2] \in requested
  /\ [tid |-> 0, query |-> "", page |-> 2] \notin Calls
  /\ BagIn([tid |-> 2, query |-> "", page |-> 1], inflight)

\* C14: result-set bound.  found is never longer than count; the search
\* collaborator modelled here reports, for every query, a total equal to the
\* number of items of all its pages.
C14_FoundWithinCount == constructed => Len(found) <= count

\* The query strings the user can produce.
Queries == {Join(chars) : chars \in Inputs}

\* Pages 1..n of query q as found holds them when they are loaded in order
\* from an empty list.
RECURSIVE PagesInOrder(_, _)
PagesInOrder(q, n) ==
  IF n = 0 THEN << >>
  ELSE LET before == PagesInOrder(q, n - 1) IN
       before \o [i \in 1..Len(search(q, n).data) |->
                    [label |-> search(q, n).data[i],
                     index |-> Len(before) + i - 1]]

\* C15: page ordering.  A search call for page p > 1 of query q is made only
\* when found holds exactly pages 1..p-1 of q, and a filter pass in search
\* mode that misses the cache has page 1 of the new query requested.
C15_PagesInOrder ==
  [][SearchMode =>
       /\ \A c \in requested' \ requested :
            c.page > 1 => found' = PagesInOrder(c.query, c.page - 1)
       /\ (DebounceFire /\ Join(terms.chars) \notin DOMAIN cachedResults)
            => \E c \in BagToSet(inflight') :
                 c.tid = terms.id /\ c.page = 1]_vars

\* C16: the debounce timer does not outlive the operation.  A debounced
\* filter pass that is still pending when the operation ends does not run:
\* it resets nothing and starts no search call.
C16_TimerEndsWithOperation ==
  [][(Ended /\ DebounceFire)
       => /\ UNCHANGED <<found, count, line, start, loadedPages, morePages>>
          /\ requested' = requested]_vars

\* C17: result-set consistency in search mode.  With loadedPages = n > 0,
\* found is pages 1..n, in order, of one query string.
C17_OneQueryInFound ==
  (SearchMode /\ loadedPages > 0)
    => \E q \in Queries : found = PagesInOrder(q, loadedPages)

\* C18: cache purity.  The entry stored under q holds pages 1..loadedPages
\* of q and the total and the more flag returned with the last of them.
C18_CachePure ==
  SearchMode =>
    \A q \in DOMAIN cachedResults :
      LET e == cachedResults[q] IN
      /\ e[2] = PagesInOrder(q, e[1])
      /\ e[3] = search(q, e[1]).total
      /\ e[4] = search(q, e[1]).more

\* Only "data" was supplied, and it resolves to an array.
DataMode == opts.data = "array" /\ opts.search = "none"

\* C19: data-mode quiescent consistency.  Once the dataset is loaded and no
\* debounced filter pass is pending, found is the dataset filtered with the
\* current terms and count is its length.
C19_DataModeQuiescent ==
  (DataMode /\ dataset.loaded /\ ~timer)
    => /\ found = filter(dataset.items, terms.chars)
       /\ count = Len(found)

\* A keystroke arrived and its filter pass ran before the dataset was
\* loaded; the pass run on load has filtered with that keystroke's terms.
C19_Witness ==
  /\ DataMode
  /\ lastEvent = "dataLoaded"
  /\ ~timer
  /\ terms = [id |-> 1, chars |-> <<"a">>]
  /\ filteredIds = {1}
  /\ Len(found) = 2
  /\ Len(dataset.items) = 3

\* The labels the search collaborator serves for query q.
RECURSIVE LabelsOf(_, _)
LabelsOf(q, n) ==
  IF n = 0 THEN {}
  ELSE LabelsOf(q, n - 1)
         \cup {search(q, n).data[i] : i \in 1..Len(search(q, n).data)}

\* Runs in which an armed debounce timer elapses and an outstanding search
\* call completes: setTimeout fires its callback (line 183) and the promise
\* of line 127 settles.
SpecLive ==
  /\ Init /\ [][Next]_vars
  /\ WF_vars(Construct)
  /\ WF_vars(DebounceFire)
  /\ WF_vars(\E call \in BagToSet(inflight) : FetchDone(call))

\* The state pagination is to come to rest in.
Settled ==
  /\ inflight = EmptyBag
  /\ ~loading
  /\ \A i \in 1..Len(found) :
       found[i].label \in
         LabelsOf(Join(terms.chars), Len(SearchPages(Join(terms.chars))))
  /\ ~morePages \/ Len(found) > start + opts.size

\* C20: pagination settles.  In a search session that does not end and
\* whose input events cease, a settled state is eventually reached and kept.
C20_PaginationSettles ==
  (SearchMode /\ []~Ended /\ <>[][~AnyInputEvent]_vars) => <>[]Settled

\* The same, for the sessions in which found never mixes two queries.
C20_SettlesUnlessMixed ==
  (SearchMode /\ []~Ended /\ <>[][~AnyInputEvent]_vars
     /\ []C17_OneQueryInFound)
    => <>[]Settled

====
